---- MODULE Spec2Model ----
(***************************************************************************)
(* A model of htmlsanitizer (src/sanitizer.go): the policy, the recursive  *)
(* walk of SanitizeReader as a stack machine, the attribute filter, the    *)
(* scheme validator and the linkifier.                                     *)
(*                                                                         *)
(* Strings of the program are sequences of symbols.  A symbol is one       *)
(* character ("<", "h", " "), a name written in one piece (a tag name, an  *)
(* attribute key) or a character reference written by html.EscapeString    *)
(* ("&lt;").  Text-node data and attribute values are sequences of         *)
(* characters; the output buffer is the sequence of symbols written.       *)
(***************************************************************************)
EXTENDS Integers, Sequences, FiniteSets, TLC

VARIABLES
    policy,   \* p *Policy: the policy of the call
    nodes,    \* the parsed tree: node id -> [Type, Data, Text, Attr, Kids]
    body,     \* the ids of the children of <body>, in document order
    stack,    \* the call stack of walk: frames [n, depth, tag, pc, ti, ci]
    buf,      \* bytes.Buffer: the symbols written so far
    origin,   \* observer of buf: origin[i] is the node whose visit wrote buf[i]
    calls,    \* observer of the callbacks: the filter and transformer calls so far
    pc,       \* "walk" while SanitizeReader runs, "done" once it has returned
    pass,     \* 1: Sanitize(s, p); 2: Sanitize(Sanitize(s, p), p)
    input,    \* the tree handed to the first pass, as parsed (never changed)
    out1,     \* the string returned by the first pass (<<>> during pass 1)
    parked    \* a concurrent call on the same policy that is not running now:
              \* its own tree, stack and buffer (NoCall when there is none)

vars == <<policy, nodes, body, stack, buf, origin, calls, pc, pass, input, out1, parked>>

(***************************************************************************)
(* Bounds of the model.                                                    *)
(***************************************************************************)
MaxNodes == 3        \* nodes below <body> in a generated tree
MaxDepthBound == 2   \* generated policies have MaxDepth in 0..MaxDepthBound
MaxChunks == 3       \* chunks in a generated attribute value
MaxTextChunks == 4   \* chunks in a generated text
MaxAttrs == 3        \* attributes of the node the attribute helpers start from
MaxCalls == 3        \* calls of the attribute helpers in a row

(***************************************************************************)
(* Characters.                                                             *)
(***************************************************************************)
Nil == [Type |-> "nil"]

LowerLetters ==
    {"a", "b", "c", "d", "e", "f", "g", "h", "i", "j", "k", "l", "m", "n",
     "o", "p", "q", "r", "s", "t", "u", "v", "w", "x", "y", "z"}

UpperToLower == [A |-> "a", H |-> "h", J |-> "j", P |-> "p", S |-> "s", T |-> "t"]

Letters == LowerLetters \cup DOMAIN UpperToLower

Digits == {"0", "1", "2", "3", "4", "5", "6", "7", "8", "9"}

\* unicode.IsSpace, as strings.TrimSpace and the regexp class \s use it
WhiteSpace == {" ", "\t", "\n", "\r", "\f"}

\* r < 0x20 || r == 0x7f, among the characters of the model
ControlChars == {"\t", "\n", "\r", "\f"}

\* strings.ToLower on one character
ToLowerChar(c) == IF c \in DOMAIN UpperToLower THEN UpperToLower[c] ELSE c

\* strings.ToLower on a sequence of characters
ToLowerSeq(s) == [i \in DOMAIN s |-> ToLowerChar(s[i])]

\* strings.ToLower on a name (a tag as the parser spells it)
ToLower(name) ==
    CASE name = "textPath" -> "textpath"
      [] name = "HTTPS" -> "https"
      [] name = "HTTP" -> "http"
      [] OTHER -> name

\* the string a sequence of characters spells
RECURSIVE Join(_)
Join(s) == IF s = <<>> THEN "" ELSE Head(s) \o Join(Tail(s))

\* s[from..] (Go's s[from-1:]) and s[from..to]
Drop(s, from) == SubSeq(s, from, Len(s))

Range(s) == {s[i] : i \in DOMAIN s}

(***************************************************************************)
(* html.EscapeString: & ' < > " become character references.               *)
(***************************************************************************)
EscapeChar(c) ==
    CASE c = "&" -> "&amp;"
      [] c = "'" -> "&#39;"
      [] c = "<" -> "&lt;"
      [] c = ">" -> "&gt;"
      [] c = "\"" -> "&#34;"
      [] OTHER -> c

EscapeString(s) == [i \in DOMAIN s |-> EscapeChar(s[i])]

\* the reverse, as the parser reads a character reference in text or a value
UnescapeChar(c) ==
    CASE c = "&amp;" -> "&"
      [] c = "&#39;" -> "'"
      [] c = "&lt;" -> "<"
      [] c = "&gt;" -> ">"
      [] c = "&#34;" -> "\""
      [] OTHER -> c

(***************************************************************************)
(* strings.TrimSpace.                                                      *)
(***************************************************************************)
RECURSIVE TrimLeft(_)
TrimLeft(s) ==
    IF s # <<>> /\ Head(s) \in WhiteSpace THEN TrimLeft(Tail(s)) ELSE s

RECURSIVE TrimRight(_)
TrimRight(s) ==
    IF s # <<>> /\ s[Len(s)] \in WhiteSpace
    THEN TrimRight(SubSeq(s, 1, Len(s) - 1))
    ELSE s

TrimSpace(s) == TrimRight(TrimLeft(s))

(***************************************************************************)
(* htmlDecodeMinimal: the value is put in <a href="..."> and parsed again; *)
(* the parser ends the value at the first double quote and decodes the     *)
(* character references in it.  An empty result falls back to the input.   *)
(***************************************************************************)
\* the numeric character references of the model's alphabet
CharRefs ==
    << [src |-> <<"&", "#", "1", "0", "6", ";">>, dst |-> "j"],
       [src |-> <<"&", "#", "5", "8", ";">>, dst |-> ":"] >>

RefAt(s, i) ==
    {k \in DOMAIN CharRefs :
        /\ i + Len(CharRefs[k].src) - 1 <= Len(s)
        /\ SubSeq(s, i, i + Len(CharRefs[k].src) - 1) = CharRefs[k].src}

RECURSIVE DecodeRefs(_, _)
DecodeRefs(s, i) ==
    IF i > Len(s) THEN <<>>
    ELSE IF RefAt(s, i) # {}
         THEN LET k == CHOOSE r \in RefAt(s, i) : TRUE
              IN  <<CharRefs[k].dst>> \o DecodeRefs(s, i + Len(CharRefs[k].src))
         ELSE <<s[i]>> \o DecodeRefs(s, i + 1)

\* the part of s before its first double quote
RECURSIVE UpToQuote(_)
UpToQuote(s) ==
    IF s = <<>> \/ Head(s) = "\"" THEN <<>> ELSE <<Head(s)>> \o UpToQuote(Tail(s))

htmlDecodeMinimal(s) ==
    LET found == DecodeRefs(UpToQuote(s), 1)
    IN  IF found # <<>> THEN found ELSE s

(***************************************************************************)
(* url.Parse, as far as schemeAllowed uses it: the error cases that the    *)
(* characters of the model can raise, and the scheme.                      *)
(***************************************************************************)
\* getScheme: [err, scheme]
RECURSIVE getScheme(_, _)
getScheme(s, i) ==
    IF i > Len(s) THEN [err |-> FALSE, scheme |-> <<>>]
    ELSE IF s[i] \in Letters THEN getScheme(s, i + 1)
    ELSE IF s[i] \in Digits \cup {"+", "-", "."}
         THEN IF i = 1 THEN [err |-> FALSE, scheme |-> <<>>]
              ELSE getScheme(s, i + 1)
    ELSE IF s[i] = ":"
         THEN IF i = 1 THEN [err |-> TRUE, scheme |-> <<>>]
              ELSE [err |-> FALSE, scheme |-> SubSeq(s, 1, i - 1)]
    ELSE [err |-> FALSE, scheme |-> <<>>]

RECURSIVE UpToChar(_, _)
UpToChar(s, c) ==
    IF s = <<>> \/ Head(s) = c THEN <<>> ELSE <<Head(s)>> \o UpToChar(Tail(s), c)

urlParse(raw) ==
    IF \E i \in DOMAIN raw : raw[i] \in ControlChars
    THEN [err |-> TRUE, Scheme |-> ""]
    ELSE LET u == UpToChar(raw, "#")
             g == getScheme(u, 1)
             rest == IF g.scheme = <<>> THEN u ELSE Drop(u, Len(g.scheme) + 2)
             noQuery == UpToChar(rest, "?")
         IN  IF g.err THEN [err |-> TRUE, Scheme |-> ""]
             ELSE IF /\ g.scheme = <<>>
                     /\ (noQuery = <<>> \/ Head(noQuery) # "/")
                     /\ ":" \in Range(UpToChar(noQuery, "/"))
                  THEN [err |-> TRUE, Scheme |-> ""]
             ELSE [err |-> FALSE, Scheme |-> Join(ToLowerSeq(g.scheme))]

(***************************************************************************)
(* sliceToSet, schemeAllowed, attrAllowed, filterAttrs.                    *)
(***************************************************************************)
sliceToSet(s) == {ToLower(s[i]) : i \in DOMAIN s}

StripControl(s) == SelectSeq(s, LAMBDA c : c \notin ControlChars)

schemeAllowed(raw, schemes) ==
    LET decoded == StripControl(
                       ToLowerSeq(TrimSpace(htmlDecodeMinimal(TrimSpace(raw)))))
        u == urlParse(decoded)
    IN  IF u.err THEN FALSE
        ELSE IF u.Scheme = "" THEN TRUE
        ELSE u.Scheme \in schemes

InList(list, x) == \E i \in DOMAIN list : list[i] = x

attrAllowedTagOnly(attr, tag, allowed) ==
    IF tag \in DOMAIN allowed THEN InList(allowed[tag], attr)
    ELSE "*" \in DOMAIN allowed /\ InList(allowed["*"], attr)

attrAllowed(attr, tag, allowed) ==
    \/ "*" \in DOMAIN allowed /\ InList(allowed["*"], attr)
    \/ tag \in DOMAIN allowed /\ InList(allowed[tag], attr)

URLAttrs == {"href", "src", "action"}

\* the loop of filterAttrs from attribute i on, out being what was appended
RECURSIVE filterLoop(_, _, _, _, _, _)
filterLoop(attrs, i, out, tag, allowed, schemes) ==
    IF i > Len(attrs) THEN out
    ELSE LET a == attrs[i]
             keep == /\ attrAllowed(a.Key, tag, allowed)
                     /\ a.Key \in URLAttrs => schemeAllowed(a.Val, schemes)
         IN  filterLoop(attrs, i + 1, IF keep THEN Append(out, a) ELSE out,
                        tag, allowed, schemes)

filterAttrs(attrs, tag, allowed, schemes) ==
    filterLoop(attrs, 1, <<>>, tag, allowed, schemes)

(***************************************************************************)
(* isVoidElement, renderOpenTag.                                           *)
(***************************************************************************)
isVoidElement(tag) ==
    tag \in {"area", "base", "br", "col", "embed", "hr", "img", "input",
             "link", "meta", "param", "source", "track", "wbr"}

\* the attributes as written inside a tag; esc is applied to each value
RECURSIVE writeAttrs(_, _)
writeAttrs(attrs, escape) ==
    IF attrs = <<>> THEN <<>>
    ELSE <<" ", Head(attrs).Key, "=", "\"">>
         \o (IF escape THEN EscapeString(Head(attrs).Val) ELSE Head(attrs).Val)
         \o <<"\"">> \o writeAttrs(Tail(attrs), escape)

renderOpenTag(n) == <<"<", n.Data>> \o writeAttrs(n.Attr, FALSE) \o <<">">>

(***************************************************************************)
(* urlRegexp = https?://[^\s<>"]+[^\s<>".,;:!?)\]] and FindAllStringIndex: *)
(* leftmost match first, each repetition as long as it can be, matches     *)
(* found left to right without overlap.                                    *)
(***************************************************************************)
\* [^\s<>"]
BodyChar(c) == c \notin WhiteSpace \cup {"<", ">", "\""}

\* [^\s<>".,;:!?)\]]
LastChar(c) == BodyChar(c) /\ c \notin {".", ",", ";", ":", "!", "?", ")", "]"}

HasAt(text, i, lit) ==
    /\ i + Len(lit) - 1 <= Len(text)
    /\ SubSeq(text, i, i + Len(lit) - 1) = lit

\* the last index of the run of BodyChar characters that starts at i (i - 1: none)
RECURSIVE RunEnd(_, _)
RunEnd(text, i) ==
    IF i <= Len(text) /\ BodyChar(text[i]) THEN RunEnd(text, i + 1) ELSE i - 1

\* the match that starts at i with its last character taken from the wider class
MatchEndKeepPunct(text, i) ==
    IF ~HasAt(text, i, <<"h", "t", "t", "p">>) THEN 0
    ELSE LET k == IF HasAt(text, i + 4, <<"s">>) THEN i + 5 ELSE i + 4
         IN  IF ~HasAt(text, k, <<":", "/", "/">>) THEN 0
             ELSE LET b == k + 3
                  IN  IF RunEnd(text, b) >= b + 1 THEN RunEnd(text, b) ELSE 0

\* the index of the last character of the match that starts at i, 0 when none
MatchEnd(text, i) ==
    IF ~HasAt(text, i, <<"h", "t", "t", "p">>) THEN 0
    ELSE LET k == IF HasAt(text, i + 4, <<"s">>) THEN i + 5 ELSE i + 4
         IN  IF ~HasAt(text, k, <<":", "/", "/">>) THEN 0
             ELSE LET b == k + 3
                      ends == {e \in (b + 1)..RunEnd(text, b) : LastChar(text[e])}
                  IN  IF ends = {} THEN 0
                      ELSE CHOOSE e \in ends : \A f \in ends : f <= e

\* FindAllStringIndex(text, -1) from index i on: the matches <<first, last>>
RECURSIVE FindAllFrom(_, _)
FindAllFrom(text, i) ==
    IF i > Len(text) THEN <<>>
    ELSE IF MatchEnd(text, i) # 0
         THEN <<(<<i, MatchEnd(text, i)>>)>> \o FindAllFrom(text, MatchEnd(text, i) + 1)
         ELSE FindAllFrom(text, i + 1)

FindAllStringIndex(text) == FindAllFrom(text, 1)

RelValue ==
    <<"n", "o", "o", "p", "e", "n", "e", "r", " ",
      "n", "o", "r", "e", "f", "e", "r", "r", "e", "r">>

\* the loop of writeLinkedText over the matches, last being m[1] of the one before
RECURSIVE linkLoop(_, _, _)
linkLoop(text, matches, last) ==
    IF matches = <<>> THEN EscapeString(Drop(text, last + 1))
    ELSE LET m == Head(matches)
             rawURL == SubSeq(text, m[1], m[2])
         IN  EscapeString(SubSeq(text, last + 1, m[1] - 1))
             \o <<"<", "a", " ", "href", "=", "\"">> \o EscapeString(rawURL)
             \o <<"\"", " ", "rel", "=", "\"">> \o RelValue \o <<"\"", ">">>
             \o EscapeString(rawURL)
             \o <<"<", "/", "a", ">">>
             \o linkLoop(text, Tail(matches), m[2])

\* what writeLinkedText appends to the buffer
writeLinkedText(text) == linkLoop(text, FindAllStringIndex(text), 0)

(***************************************************************************)
(* Policies: the two presets, and the policies and transformers the tests  *)
(* and examples of the repository build.                                   *)
(***************************************************************************)
DefaultPolicy ==
    [AllowedTags |->
        <<"h1", "h2", "h3", "h4", "h5", "h6", "p", "br", "hr",
          "b", "i", "em", "strong", "u", "s", "strike", "del", "ins",
          "a", "img", "ul", "ol", "li",
          "table", "thead", "tbody", "tfoot", "tr", "th", "td",
          "code", "pre", "kbd", "samp", "blockquote", "cite", "q",
          "figure", "figcaption",
          "div", "span", "section", "article", "header", "footer",
          "details", "summary", "abbr", "acronym", "address", "sup", "sub">>,
     AllowedAttributes |->
        ("a" :> <<"href", "title", "target", "rel">>)
        @@ ("img" :> <<"src", "alt", "title", "width", "height", "loading">>)
        @@ ("td" :> <<"colspan", "rowspan", "align", "valign">>)
        @@ ("th" :> <<"colspan", "rowspan", "align", "valign", "scope">>)
        @@ ("blockquote" :> <<"cite">>)
        @@ ("q" :> <<"cite">>)
        @@ ("abbr" :> <<"title">>)
        @@ ("acronym" :> <<"title">>)
        @@ ("*" :> <<"id", "class", "lang", "dir">>),
     AllowedSchemes |-> <<"http", "https", "mailto">>,
     StripDisallowed |-> FALSE,
     Transformers |-> <<>>,
     Linkify |-> FALSE,
     MaxDepth |-> 0]

NoAttributes == [t \in {} |-> <<>>]

StrictPolicy ==
    [AllowedTags |-> <<"b", "i", "em", "strong", "br", "p", "ul", "ol", "li">>,
     AllowedAttributes |-> NoAttributes,
     AllowedSchemes |-> <<"https">>,
     StripDisallowed |-> TRUE,
     Transformers |-> <<>>,
     Linkify |-> FALSE,
     MaxDepth |-> 0]

\* the policy of ExampleSanitize_customPolicy
CustomPolicy ==
    [AllowedTags |-> <<"b", "i">>,
     AllowedAttributes |-> NoAttributes,
     AllowedSchemes |-> <<"https">>,
     StripDisallowed |-> TRUE,
     Transformers |-> <<>>,
     Linkify |-> FALSE,
     MaxDepth |-> 0]

\* a caller's policy for form markup: a void tag is allowed, links are https
\* only, and two entries are written in upper case
FormPolicy ==
    [AllowedTags |-> <<"b", "a", "input">>,
     AllowedAttributes |->
        ("a" :> <<"href", "rel">>) @@ ("input" :> <<"src", "HREF">>)
        @@ ("*" :> <<"id">>),
     AllowedSchemes |-> <<"HTTPS">>,
     StripDisallowed |-> FALSE,
     Transformers |-> <<>>,
     Linkify |-> FALSE,
     MaxDepth |-> 0]

(***************************************************************************)
(* SetAttr, GetAttr, RemoveAttr on a node record.                          *)
(***************************************************************************)
FirstWithKey(attrs, key) ==
    LET hits == {i \in DOMAIN attrs : attrs[i].Key = key}
    IN  IF hits = {} THEN 0 ELSE CHOOSE i \in hits : \A j \in hits : i <= j

\* SetAttr without the search for an entry that has the key
SetAttrAppend(n, key, val) ==
    [n EXCEPT !.Attr = Append(n.Attr, [Key |-> key, Val |-> val])]

SetAttr(n, key, val) ==
    LET i == FirstWithKey(n.Attr, key)
    IN  IF i # 0 THEN [n EXCEPT !.Attr[i].Val = val]
        ELSE [n EXCEPT !.Attr = Append(n.Attr, [Key |-> key, Val |-> val])]

GetAttr(n, key) ==
    LET i == FirstWithKey(n.Attr, key)
    IN  IF i # 0 THEN n.Attr[i].Val ELSE <<>>

RemoveAttr(n, key) ==
    [n EXCEPT !.Attr = SelectSeq(n.Attr, LAMBDA a : a.Key # key)]

\* the transformer of TestSanitize_Transformer
AddTargetBlank(n) ==
    IF n.Type = "element" /\ n.Data = "a"
    THEN SetAttr(SetAttr(n, "target", <<"_", "b", "l", "a", "n", "k">>),
                 "rel", RelValue)
    ELSE n

\* the transformer of TestSanitize_TransformerNilRemovesNode
RemoveB(n) == IF n.Type = "element" /\ n.Data = "b" THEN Nil ELSE n

\* a caller's transformer that renames an element: n.Data = "strong" on <b>
BToStrong(n) ==
    IF n.Type = "element" /\ n.Data = "b" THEN [n EXCEPT !.Data = "strong"] ELSE n

\* t(n) for a transformer of the policy, named by t
ApplyTransformer(t, n) ==
    CASE t = "AddTargetBlank" -> AddTargetBlank(n)
      [] t = "RemoveB" -> RemoveB(n)
      [] t = "BToStrong" -> BToStrong(n)

(***************************************************************************)
(* Trees, as html.Parse builds them below <body>.                          *)
(***************************************************************************)
TextNode(data) ==
    [Type |-> "text", Data |-> "", Text |-> data, Attr |-> <<>>, Kids |-> <<>>]

CommentNode(data) ==
    [Type |-> "comment", Data |-> "", Text |-> data, Attr |-> <<>>, Kids |-> <<>>]

ElementNode(tag, attrs, kids) ==
    [Type |-> "element", Data |-> tag, Text |-> <<>>, Attr |-> attrs, Kids |-> kids]

Attribute(key, val) == [Key |-> key, Val |-> val]

\* the strings of the tests and examples, character by character
TextHello ==
    <<"H", "e", "l", "l", "o">>

TextAlert ==
    <<"a", "l", "e", "r", "t", "(", "'", "x", "s", "s", "'", ")">>

TextLink ==
    <<"l", "i", "n", "k">>

TextDeep ==
    <<"d", "e", "e", "p">>

TextVisit ==
    <<"V", "i", "s", "i", "t", " ", "h", "t", "t", "p", "s", ":", "/", "/",
      "e", "x", "a", "m", "p", "l", "e", ".", "c", "o", "m", " ", "t", "o",
      "d", "a", "y">>

TextRemoveMe ==
    <<"r", "e", "m", "o", "v", "e", " ", "m", "e">>

TextKeep ==
    <<" ", "k", "e", "e", "p">>

ExampleURL ==
    <<"h", "t", "t", "p", "s", ":", "/", "/", "e", "x", "a", "m", "p", "l",
      "e", ".", "c", "o", "m">>

JavascriptURL ==
    <<"j", "a", "v", "a", "s", "c", "r", "i", "p", "t", ":", "a", "l", "e",
      "r", "t", "(", "1", ")">>

\* a tree is [nodes, body]: the arena and the children of <body>
\* <b>Hello</b> <script>alert('xss')</script>  (ExampleSanitize)
TreeScript ==
    [nodes |-> << ElementNode("b", <<>>, <<2>>), TextNode(TextHello),
                  TextNode(<<" ">>),
                  ElementNode("script", <<>>, <<5>>), TextNode(TextAlert) >>,
     body |-> <<1, 3, 4>>]

\* <a href="https://example.com">link</a>  (TestSanitize_Transformer)
TreeAnchor ==
    [nodes |-> << ElementNode("a", <<Attribute("href", ExampleURL)>>, <<2>>),
                  TextNode(TextLink) >>,
     body |-> <<1>>]

\* <a href="javascript:alert(1)">link</a>  (TestSanitize_JavascriptHrefBlocked)
TreeJavascript ==
    [nodes |-> << ElementNode("a", <<Attribute("href", JavascriptURL)>>, <<2>>),
                  TextNode(TextLink) >>,
     body |-> <<1>>]

\* <div><div><div><b>deep</b></div></div></div>  (TestSanitize_MaxDepth)
TreeDeep ==
    [nodes |-> << ElementNode("div", <<>>, <<2>>), ElementNode("div", <<>>, <<3>>),
                  ElementNode("div", <<>>, <<4>>), ElementNode("b", <<>>, <<5>>),
                  TextNode(TextDeep) >>,
     body |-> <<1>>]

\* Visit https://example.com today  (README, Linkify)
TreeVisit == [nodes |-> << TextNode(TextVisit) >>, body |-> <<1>>]

\* <p><b>remove me</b> keep</p>  (TestSanitize_TransformerNilRemovesNode)
TreeRemoveMe ==
    [nodes |-> << ElementNode("p", <<>>, <<2, 4>>), ElementNode("b", <<>>, <<3>>),
                  TextNode(TextRemoveMe), TextNode(TextKeep) >>,
     body |-> <<1>>]

ScenarioTrees ==
    {TreeScript, TreeAnchor, TreeJavascript, TreeDeep, TreeVisit, TreeRemoveMe}

ScenarioPolicies ==
    {DefaultPolicy, StrictPolicy, CustomPolicy,
     [DefaultPolicy EXCEPT !.Linkify = TRUE],
     [StrictPolicy EXCEPT !.Linkify = TRUE],
     [DefaultPolicy EXCEPT !.MaxDepth = 2],
     [DefaultPolicy EXCEPT !.Transformers = <<"AddTargetBlank">>],
     [DefaultPolicy EXCEPT !.Transformers = <<"RemoveB">>],
     [DefaultPolicy EXCEPT !.Transformers = <<"AddTargetBlank", "RemoveB">>],
     [CustomPolicy EXCEPT !.StripDisallowed = FALSE,
                          !.Transformers = <<"RemoveB">>],
     [DefaultPolicy EXCEPT !.MaxDepth = -1],
     [DefaultPolicy EXCEPT !.Transformers = <<"BToStrong">>]}

(***************************************************************************)
(* Generated trees: every forest of at most MaxNodes nodes, in document    *)
(* order, over a small set of node labels, that the parser can build: text *)
(* and comments are leaves, two text nodes are never adjacent siblings, a  *)
(* script holds text only, a void element has children only inside foreign *)
(* content (<svg>), where <b> cannot stay.                                 *)
(***************************************************************************)
\* &http://e.c. : an escaped character, a URL, and punctuation after it
TextURL == <<"&", "h", "t", "t", "p", ":", "/", "/", "e", ".", "c", ".">>

Labels ==
    { TextNode(TextURL), CommentNode(<<"c">>),
      ElementNode("b", <<Attribute("id", <<"m">>), Attribute("onclick", <<"x">>)>>, <<>>),
      ElementNode("script", <<Attribute("src", <<"/", "x">>)>>, <<>>),
      ElementNode("input", <<>>, <<>>),
      ElementNode("svg", <<>>, <<>>) }

RECURSIVE AncestorsOrSelf(_, _)
AncestorsOrSelf(par, i) ==
    IF i = 0 THEN {0} ELSE {i} \cup AncestorsOrSelf(par, par[i])

RECURSIVE SortedSeq(_)
SortedSeq(S) ==
    IF S = {} THEN <<>>
    ELSE LET m == CHOOSE x \in S : \A y \in S : x <= y
         IN  <<m>> \o SortedSeq(S \ {m})

ChildrenIn(par, i) == SortedSeq({k \in DOMAIN par : par[k] = i})

ParserCanBuild(par, lab) ==
    LET n == Len(lab)
        kids(i) == ChildrenIn(par, i)
    IN  /\ \A i \in 2..n : par[i] \in AncestorsOrSelf(par, i - 1)
        /\ \A i \in 1..n :
              /\ par[i] # 0 => lab[par[i]].Type = "element"
              /\ par[i] # 0 /\ lab[par[i]].Data = "script" => lab[i].Type = "text"
              /\ par[i] # 0 /\ lab[par[i]].Data = "svg" => lab[i].Data # "b"
              /\ isVoidElement(lab[i].Data) /\ kids(i) # <<>> =>
                    \E j \in AncestorsOrSelf(par, i) \ {0, i} : lab[j].Data = "svg"
        /\ \A i \in 0..n : \A k \in 1..(Len(kids(i)) - 1) :
              ~(lab[kids(i)[k]].Type = "text" /\ lab[kids(i)[k + 1]].Type = "text")

GeneratedTrees ==
    UNION { { [nodes |-> [i \in 1..n |-> [lab[i] EXCEPT !.Kids = ChildrenIn(par, i)]],
               body |-> ChildrenIn(par, 0)] :
               <<par, lab>> \in
                   {pl \in [1..n -> 0..(n - 1)] \X [1..n -> Labels] :
                       /\ \A i \in 1..n : pl[1][i] < i
                       /\ ParserCanBuild(pl[1], pl[2])} } :
            n \in 1..MaxNodes }

GeneratedPolicies ==
    { [FormPolicy EXCEPT !.StripDisallowed = strip, !.Linkify = linkify,
                         !.MaxDepth = depth, !.Transformers = ts] :
        strip \in BOOLEAN, linkify \in BOOLEAN,
        depth \in 0..MaxDepthBound, ts \in {<<>>, <<"RemoveB">>} }

\* the concatenations of at most k chunks
RECURSIVE Concats(_, _)
Concats(chunks, k) ==
    IF k = 0 THEN {<<>>}
    ELSE LET shorter == Concats(chunks, k - 1)
         IN  shorter \cup {c \o t : c \in chunks, t \in shorter}

(***************************************************************************)
(* Inputs of the attribute filter: one element whose second attribute is a *)
(* URL attribute with a generated value.                                   *)
(***************************************************************************)
ValueChunks ==
    { <<"j", "a", "v", "a", "s", "c", "r", "i", "p", "t">>,
      <<"a", "v", "a", "s", "c", "r", "i", "p", "t">>,
      <<"&", "#", "1", "0", "6", ";">>,
      <<"J">>,
      <<"h", "t", "t", "p", "s">>,
      <<":">>, <<"/">>, <<" ">>, <<"\t">>, <<"\"">> }

FilterTrees ==
    { [nodes |-> << ElementNode(tag,
                        << Attribute("id", <<"m">>), Attribute(key, v),
                           Attribute("onclick", <<"x">>) >>, <<>>) >>,
       body |-> <<1>>] :
        tag \in {"a", "input"}, key \in {"href", "src"},
        v \in Concats(ValueChunks, MaxChunks) }

FilterPolicies == {DefaultPolicy, FormPolicy}

(***************************************************************************)
(* Inputs of the linkifier: one text node with a generated text.           *)
(***************************************************************************)
TextChunks ==
    { <<"h", "t", "t", "p">>, <<":", "/", "/">>,
      <<"h", "t", "t", "p", ":", "/", "/", "x", "x">>,
      <<"h", "t", "t", "p", "s", ":", "/", "/", "x", "x">>,
      <<"x">>, <<".">>, <<" ">>, <<"<">>, <<"&">> }

LinkifyTrees ==
    { [nodes |-> << TextNode(t) >>, body |-> <<1>>] :
        t \in Concats(TextChunks, MaxTextChunks) \ {<<>>} }

LinkifyPolicies == {[DefaultPolicy EXCEPT !.Linkify = TRUE]}

(***************************************************************************)
(* SanitizeReader.  A frame is one activation of walk(n, depth): pc is     *)
(* where it stands, tag its local tag, ti the index of the next            *)
(* transformer, ci the index of the next child.  The frame of node 0 is    *)
(* the loop over the children of <body>.                                   *)
(***************************************************************************)
BodyFrame == [n |-> 0, depth |-> 0, tag |-> "body", pc |-> "kids", ti |-> 1, ci |-> 1]

Top == stack[Len(stack)]

Pop == SubSeq(stack, 1, Len(stack) - 1)

SetTop(f) == [stack EXCEPT ![Len(stack)] = f]

KidsOf(n) == IF n = 0 THEN body ELSE nodes[n].Kids

\* tooDeep, with > written >=
tooDeepOffByOne(depth) == policy.MaxDepth > 0 /\ depth >= policy.MaxDepth

tooDeep(depth) == policy.MaxDepth > 0 /\ depth > policy.MaxDepth

\* the rule for the tag alone
allowedAnyDepth(n, depth) ==
    ToLower(nodes[n].Data) \in sliceToSet(policy.AllowedTags)

allowed(n, depth) ==
    ToLower(nodes[n].Data) \in sliceToSet(policy.AllowedTags) /\ ~tooDeep(depth)

Entering(type) ==
    /\ pc = "walk"
    /\ stack # <<>>
    /\ Top.pc = "enter"
    /\ nodes[Top.n].Type = type

\* buf.WriteString(syms) during the visit of node n
Write(syms, n) ==
    /\ buf' = buf \o syms
    /\ origin' = origin \o [i \in 1..Len(syms) |-> n]

\* no concurrent call
NoCall == [pc |-> "none"]

\* the state the call starts in: the tree parsed, the buffer empty
Start(tree, p) ==
    /\ policy = p
    /\ nodes = tree.nodes
    /\ body = tree.body
    /\ input = tree
    /\ stack = <<BodyFrame>>
    /\ buf = <<>>
    /\ origin = <<>>
    /\ calls = <<>>
    /\ pc = "walk"
    /\ pass = 1
    /\ out1 = <<>>
    /\ parked = NoCall

Init ==
    \/ \E tree \in GeneratedTrees, p \in GeneratedPolicies : Start(tree, p)
    \/ \E tree \in ScenarioTrees, p \in ScenarioPolicies : Start(tree, p)

InitFilter == \E tree \in FilterTrees, p \in FilterPolicies : Start(tree, p)

InitLinkify == \E tree \in LinkifyTrees, p \in LinkifyPolicies : Start(tree, p)

\* for c := n.FirstChild; c != nil; c = c.NextSibling { walk(c, depth+1) }
WalkChild ==
    /\ pc = "walk"
    /\ stack # <<>>
    /\ Top.pc \in {"kids", "esckids"}
    /\ Top.ci <= Len(KidsOf(Top.n))
    /\ stack' = Append(SetTop([Top EXCEPT !.ci = @ + 1]),
                       [n |-> KidsOf(Top.n)[Top.ci], depth |-> Top.depth + 1,
                        tag |-> "", pc |-> "enter", ti |-> 1, ci |-> 1])
    /\ UNCHANGED <<policy, nodes, body, buf, origin, calls, pc, pass, input, out1, parked>>

\* case html.TextNode
WalkText ==
    /\ Entering("text")
    /\ Write(IF policy.Linkify
             THEN writeLinkedText(nodes[Top.n].Text)
             ELSE EscapeString(nodes[Top.n].Text), Top.n)
    /\ stack' = Pop
    /\ UNCHANGED <<policy, nodes, body, calls, pc, pass, input, out1, parked>>

\* case html.CommentNode
WalkComment ==
    /\ Entering("comment")
    /\ stack' = Pop
    /\ UNCHANGED <<policy, nodes, body, buf, origin, calls, pc, pass, input, out1, parked>>

\* case html.ElementNode, allowed: n.Attr = filterAttrs(...)
FilterElement ==
    /\ Entering("element")
    /\ allowed(Top.n, Top.depth)
    /\ LET tag == ToLower(nodes[Top.n].Data)
       IN  /\ nodes' = [nodes EXCEPT ![Top.n].Attr =
                           filterAttrs(@, tag, policy.AllowedAttributes,
                                       sliceToSet(policy.AllowedSchemes))]
           /\ stack' = SetTop([Top EXCEPT !.tag = tag, !.pc = "xform", !.ti = 1])
    /\ calls' = Append(calls, [op |-> "filter", n |-> Top.n, t |-> "", nil |-> FALSE])
    /\ UNCHANGED <<policy, body, buf, origin, pc, pass, input, out1, parked>>

InTransformers ==
    /\ pc = "walk"
    /\ stack # <<>>
    /\ Top.pc = "xform"

\* the transformer that the loop index ti stands at, taken from the far end
transformerAtReversed(ti) ==
    policy.Transformers[Len(policy.Transformers) + 1 - ti]

\* for _, t := range p.Transformers: the transformer that the loop index ti stands at
transformerAt(ti) == policy.Transformers[ti]

Called(t, n, r) == [op |-> "transform", n |-> n, t |-> t, nil |-> r = Nil]

\* n = t(n), not nil
RunTransformer ==
    /\ InTransformers
    /\ Top.ti <= Len(policy.Transformers)
    /\ LET r == ApplyTransformer(transformerAt(Top.ti), nodes[Top.n])
       IN  /\ r # Nil
           /\ nodes' = [nodes EXCEPT ![Top.n] = r]
           /\ calls' = Append(calls, Called(transformerAt(Top.ti), Top.n, r))
    /\ stack' = SetTop([Top EXCEPT !.ti = @ + 1])
    /\ UNCHANGED <<policy, body, buf, origin, pc, pass, input, out1, parked>>

\* if n = t(n); n == nil { return }
TransformerNil ==
    /\ InTransformers
    /\ Top.ti <= Len(policy.Transformers)
    /\ ApplyTransformer(transformerAt(Top.ti), nodes[Top.n]) = Nil
    /\ calls' = Append(calls, Called(transformerAt(Top.ti), Top.n, Nil))
    /\ stack' = Pop
    /\ UNCHANGED <<policy, nodes, body, buf, origin, pc, pass, input, out1, parked>>

OpenTag(tag, attrs) == <<"<", tag>> \o writeAttrs(attrs, TRUE)

\* the open tag of a non-void element
WriteOpenTag ==
    /\ InTransformers
    /\ Top.ti > Len(policy.Transformers)
    /\ ~isVoidElement(Top.tag)
    /\ Write(OpenTag(Top.tag, nodes[Top.n].Attr) \o <<">">>, Top.n)
    /\ stack' = SetTop([Top EXCEPT !.pc = "kids", !.ci = 1])
    /\ UNCHANGED <<policy, nodes, body, calls, pc, pass, input, out1, parked>>

\* if isVoidElement(tag) { buf.WriteString(" />"); return }
WriteVoidTag ==
    /\ InTransformers
    /\ Top.ti > Len(policy.Transformers)
    /\ isVoidElement(Top.tag)
    /\ Write(OpenTag(Top.tag, nodes[Top.n].Attr) \o <<" ", "/", ">">>, Top.n)
    /\ stack' = Pop
    /\ UNCHANGED <<policy, nodes, body, calls, pc, pass, input, out1, parked>>

\* after the children: "</" tag ">"
WriteCloseTag ==
    /\ pc = "walk"
    /\ stack # <<>>
    /\ Top.pc = "kids"
    /\ Top.n # 0
    /\ Top.ci > Len(KidsOf(Top.n))
    /\ Write(<<"<", "/", Top.tag, ">">>, Top.n)
    /\ stack' = Pop
    /\ UNCHANGED <<policy, nodes, body, calls, pc, pass, input, out1, parked>>

\* not allowed, p.StripDisallowed: drop node and all descendants
StripElement ==
    /\ Entering("element")
    /\ ~allowed(Top.n, Top.depth)
    /\ policy.StripDisallowed
    /\ stack' = Pop
    /\ UNCHANGED <<policy, nodes, body, buf, origin, calls, pc, pass, input, out1, parked>>

\* not allowed, escaping: the open tag as text
EscapeOpenTag ==
    /\ Entering("element")
    /\ ~allowed(Top.n, Top.depth)
    /\ ~policy.StripDisallowed
    /\ Write(EscapeString(renderOpenTag(nodes[Top.n])), Top.n)
    /\ stack' = SetTop([Top EXCEPT !.tag = ToLower(nodes[Top.n].Data),
                                   !.pc = "esckids", !.ci = 1])
    /\ UNCHANGED <<policy, nodes, body, calls, pc, pass, input, out1, parked>>

\* after the children of an escaped element: the closing tag as text, unless void
EscapeCloseTag ==
    /\ pc = "walk"
    /\ stack # <<>>
    /\ Top.pc = "esckids"
    /\ Top.ci > Len(KidsOf(Top.n))
    /\ Write(IF isVoidElement(Top.tag) THEN <<>>
             ELSE EscapeString(<<"<", "/", Top.tag, ">">>), Top.n)
    /\ stack' = Pop
    /\ UNCHANGED <<policy, nodes, body, calls, pc, pass, input, out1, parked>>

\* return buf.String(), nil
Return ==
    /\ pc = "walk"
    /\ Len(stack) = 1
    /\ Top.n = 0
    /\ Top.ci > Len(body)
    /\ stack' = <<>>
    /\ pc' = "done"
    /\ UNCHANGED <<policy, nodes, body, buf, origin, calls, pass, input, out1, parked>>

(***************************************************************************)
(* html.Parse on a string that SanitizeReader returned: live tags are      *)
(* "<" tag attributes ">", "<" tag attributes " />" and "</" tag ">", an   *)
(* attribute is " " key "=" and the value in double quotes, everything     *)
(* else is text.  The parser decodes character references, joins adjacent  *)
(* text into one node and drops white space before the first content.      *)
(***************************************************************************)
\* the index of the first double quote at or after j
RECURSIVE QuoteFrom(_, _)
QuoteFrom(out, j) ==
    IF j > Len(out) \/ out[j] = "\"" THEN j ELSE QuoteFrom(out, j + 1)

\* the attributes that start at j: [attrs, next]
RECURSIVE ReadAttrs(_, _)
ReadAttrs(out, j) ==
    IF j + 3 <= Len(out) /\ out[j] = " " /\ out[j + 1] # "/"
    THEN LET q == QuoteFrom(out, j + 4)
             val == [k \in 1..(q - j - 4) |-> UnescapeChar(out[j + 3 + k])]
             rest == ReadAttrs(out, q + 1)
         IN  [attrs |-> <<Attribute(out[j + 1], val)>> \o rest.attrs,
              next |-> rest.next]
    ELSE [attrs |-> <<>>, next |-> j]

\* ns with id added as the last child of the innermost open element
AddKid(ns, open, id) ==
    IF open = <<>> THEN ns
    ELSE [ns EXCEPT ![open[Len(open)]].Kids = Append(@, id)]

RECURSIVE ParseFrom(_, _, _, _, _)
ParseFrom(out, i, ns, bd, open) ==
    IF i > Len(out) THEN [nodes |-> ns, body |-> bd]
    ELSE IF out[i] = "<" /\ out[i + 1] = "/"
         THEN ParseFrom(out, i + 4, ns, bd, SubSeq(open, 1, Len(open) - 1))
    ELSE IF out[i] = "<"
         THEN LET a == ReadAttrs(out, i + 2)
                  id == Len(ns) + 1
                  ns2 == Append(AddKid(ns, open, id),
                                ElementNode(out[i + 1], a.attrs, <<>>))
                  bd2 == IF open = <<>> THEN Append(bd, id) ELSE bd
              IN  IF out[a.next] = ">"
                  THEN ParseFrom(out, a.next + 1, ns2, bd2, Append(open, id))
                  ELSE ParseFrom(out, a.next + 3, ns2, bd2, open)
    ELSE LET sibs == IF open = <<>> THEN bd ELSE ns[open[Len(open)]].Kids
             last == IF sibs = <<>> THEN 0 ELSE sibs[Len(sibs)]
             c == UnescapeChar(out[i])
         IN  IF last # 0 /\ ns[last].Type = "text"
             THEN ParseFrom(out, i + 1,
                            [ns EXCEPT ![last].Text = Append(@, c)], bd, open)
             ELSE ParseFrom(out, i + 1,
                            Append(AddKid(ns, open, Len(ns) + 1), TextNode(<<c>>)),
                            IF open = <<>> THEN Append(bd, Len(ns) + 1) ELSE bd,
                            open)

ParseOutput(out) == ParseFrom(TrimLeft(out), 1, <<>>, <<>>, <<>>)

\* Sanitize(clean, p) on the string clean that Sanitize(s, p) returned
SanitizeAgain ==
    /\ pc = "done"
    /\ pass = 1
    /\ LET tree == ParseOutput(buf)
       IN  /\ nodes' = tree.nodes
           /\ body' = tree.body
    /\ out1' = buf
    /\ buf' = <<>>
    /\ origin' = <<>>
    /\ calls' = <<>>
    /\ stack' = <<BodyFrame>>
    /\ pc' = "walk"
    /\ pass' = 2
    /\ UNCHANGED <<policy, input, parked>>

Next ==
    \/ WalkChild
    \/ WalkText
    \/ WalkComment
    \/ FilterElement
    \/ RunTransformer
    \/ TransformerNil
    \/ WriteOpenTag
    \/ WriteVoidTag
    \/ WriteCloseTag
    \/ StripElement
    \/ EscapeOpenTag
    \/ EscapeCloseTag
    \/ Return
    \/ SanitizeAgain

Spec == Init /\ [][Next]_vars

\* the steps a single element without children takes
NextFilter ==
    \/ WalkChild
    \/ FilterElement
    \/ WriteOpenTag
    \/ WriteVoidTag
    \/ WriteCloseTag
    \/ EscapeOpenTag
    \/ EscapeCloseTag
    \/ Return

SpecFilter == InitFilter /\ [][NextFilter]_vars

\* the steps a single text node takes
NextLinkify ==
    \/ WalkChild
    \/ WalkText
    \/ Return

SpecLinkify == InitLinkify /\ [][NextLinkify]_vars

(***************************************************************************)
(* Two calls of Sanitize that share one policy and run concurrently.  The  *)
(* tree, the walk and the buffer are locals of a call; the variables hold  *)
(* those of the call that runs, parked those of the other one, and the     *)
(* scheduler may switch between any two steps.                             *)
(***************************************************************************)
\* the locals of the running call, with no buffer of its own
LocalWithoutBuffer ==
    [nodes |-> nodes, body |-> body, stack |-> stack, buf |-> <<>>,
     origin |-> <<>>, calls |-> calls, pc |-> pc, input |-> input,
     mixed |-> FALSE]

\* doc, buf and walk: the locals of the running call
Local ==
    [nodes |-> nodes, body |-> body, stack |-> stack, buf |-> buf,
     origin |-> origin, calls |-> calls, pc |-> pc, input |-> input,
     mixed |-> FALSE]

\* the locals of a call that has parsed its input and not yet walked
StartOf(tree) ==
    [nodes |-> tree.nodes, body |-> tree.body, stack |-> <<BodyFrame>>,
     buf |-> <<>>, origin |-> <<>>, calls |-> <<>>, pc |-> "walk",
     input |-> tree, mixed |-> FALSE]

PairTrees ==
    {TreeScript, TreeAnchor, TreeRemoveMe, TreeVisit}
    \cup {t \in GeneratedTrees : Len(t.nodes) = 1}

PairPolicies == ScenarioPolicies \cup {FormPolicy}

InitPair ==
    \E a \in PairTrees, b \in PairTrees, p \in PairPolicies :
        /\ policy = p
        /\ nodes = a.nodes
        /\ body = a.body
        /\ input = a
        /\ stack = <<BodyFrame>>
        /\ buf = <<>>
        /\ origin = <<>>
        /\ calls = <<>>
        /\ pc = "walk"
        /\ pass = 1
        /\ out1 = <<>>
        /\ parked = StartOf(b)

\* the scheduler takes the running call off and lets the other one run; mixed
\* remembers that this happened while both had written part of their output
Switch ==
    /\ parked # NoCall
    /\ parked.pc = "walk"
    /\ parked' = [Local EXCEPT !.mixed =
                     parked.mixed \/ (pc = "walk" /\ buf # <<>> /\ parked.buf # <<>>)]
    /\ nodes' = parked.nodes
    /\ body' = parked.body
    /\ stack' = parked.stack
    /\ buf' = parked.buf
    /\ origin' = parked.origin
    /\ calls' = parked.calls
    /\ pc' = parked.pc
    /\ input' = parked.input
    /\ UNCHANGED <<policy, pass, out1>>

NextPair ==
    \/ WalkChild
    \/ WalkText
    \/ WalkComment
    \/ FilterElement
    \/ RunTransformer
    \/ TransformerNil
    \/ WriteOpenTag
    \/ WriteVoidTag
    \/ WriteCloseTag
    \/ StripElement
    \/ EscapeOpenTag
    \/ EscapeCloseTag
    \/ Return
    \/ Switch

SpecPair == InitPair /\ [][NextPair]_vars

(***************************************************************************)
(* StripTags: a walk from <body> that writes the data of the text nodes    *)
(* and visits the children of every node.  pc is "strip" while it runs and *)
(* "stripped" once it has returned.                                        *)
(***************************************************************************)
\* <p>Hello <b>world</b></p>  (ExampleStripTags, TestStripTags)
TreeHelloWorld ==
    [nodes |-> << ElementNode("p", <<>>, <<2, 3>>),
                  TextNode(<<"H", "e", "l", "l", "o", " ">>),
                  ElementNode("b", <<>>, <<4>>),
                  TextNode(<<"w", "o", "r", "l", "d">>) >>,
     body |-> <<1>>]

StripTrees == GeneratedTrees \cup ScenarioTrees \cup {TreeHelloWorld}

InitStrip ==
    \E tree \in StripTrees :
        /\ policy = DefaultPolicy
        /\ nodes = tree.nodes
        /\ body = tree.body
        /\ input = tree
        /\ stack = <<BodyFrame>>
        /\ buf = <<>>
        /\ origin = <<>>
        /\ calls = <<>>
        /\ pc = "strip"
        /\ pass = 1
        /\ out1 = <<>>
        /\ parked = NoCall

\* n.Data of a text node, with the character references written back
TextDataEscaped(n) == EscapeString(nodes[n].Text)

\* n.Data of a text node
TextData(n) == nodes[n].Text

StripEntering ==
    /\ pc = "strip"
    /\ stack # <<>>
    /\ Top.pc = "enter"

\* if n.Type == html.TextNode { buf.WriteString(n.Data) }
StripText ==
    /\ StripEntering
    /\ nodes[Top.n].Type = "text"
    /\ Write(TextData(Top.n), Top.n)
    /\ stack' = SetTop([Top EXCEPT !.pc = "kids", !.ci = 1])
    /\ UNCHANGED <<policy, nodes, body, calls, pc, pass, input, out1, parked>>

\* any other node: nothing is written
StripOther ==
    /\ StripEntering
    /\ nodes[Top.n].Type # "text"
    /\ stack' = SetTop([Top EXCEPT !.pc = "kids", !.ci = 1])
    /\ UNCHANGED <<policy, nodes, body, buf, origin, calls, pc, pass, input, out1, parked>>

\* for c := n.FirstChild; c != nil; c = c.NextSibling { walk(c) }
StripChild ==
    /\ pc = "strip"
    /\ stack # <<>>
    /\ Top.pc = "kids"
    /\ Top.ci <= Len(KidsOf(Top.n))
    /\ stack' = Append(SetTop([Top EXCEPT !.ci = @ + 1]),
                       [n |-> KidsOf(Top.n)[Top.ci], depth |-> Top.depth + 1,
                        tag |-> "", pc |-> "enter", ti |-> 1, ci |-> 1])
    /\ UNCHANGED <<policy, nodes, body, buf, origin, calls, pc, pass, input, out1, parked>>

\* the end of walk(n) for a node below <body>
StripUp ==
    /\ pc = "strip"
    /\ Len(stack) > 1
    /\ Top.pc = "kids"
    /\ Top.ci > Len(KidsOf(Top.n))
    /\ stack' = Pop
    /\ UNCHANGED <<policy, nodes, body, buf, origin, calls, pc, pass, input, out1, parked>>

\* return buf.String(), nil
StripReturn ==
    /\ pc = "strip"
    /\ Len(stack) = 1
    /\ Top.ci > Len(body)
    /\ stack' = <<>>
    /\ pc' = "stripped"
    /\ UNCHANGED <<policy, nodes, body, buf, origin, calls, pass, input, out1, parked>>

NextStrip ==
    \/ StripText
    \/ StripOther
    \/ StripChild
    \/ StripUp
    \/ StripReturn

SpecStrip == InitStrip /\ [][NextStrip]_vars

(***************************************************************************)
(* The attribute helpers called in a row on one node, as a transformer or  *)
(* any other caller may do.  The node need not come from the parser: it    *)
(* may hold several entries with one key.  calls logs each call with the   *)
(* attributes before it.                                                   *)
(***************************************************************************)
AttrKeys == {"href", "id"}

AttrVals == {<<"1">>, <<"2">>}

AttrLists ==
    UNION { [1..n -> {Attribute(k, v) : k \in AttrKeys, v \in AttrVals}] :
            n \in 0..MaxAttrs }

InitAttr ==
    \E attrs \in AttrLists :
        /\ policy = DefaultPolicy
        /\ nodes = << ElementNode("a", attrs, <<>>) >>
        /\ body = <<1>>
        /\ input = [nodes |-> nodes, body |-> body]
        /\ stack = <<>>
        /\ buf = <<>>
        /\ origin = <<>>
        /\ calls = <<>>
        /\ pc = "attr"
        /\ pass = 1
        /\ out1 = <<>>
        /\ parked = NoCall

HelperCall(op, key, val, got) ==
    [op |-> op, key |-> key, val |-> val, got |-> got, before |-> nodes[1].Attr]

CallSetAttr ==
    /\ pc = "attr"
    /\ Len(calls) < MaxCalls
    /\ \E k \in AttrKeys, v \in AttrVals :
          /\ nodes' = [nodes EXCEPT ![1] = SetAttr(@, k, v)]
          /\ calls' = Append(calls, HelperCall("set", k, v, <<>>))
    /\ UNCHANGED <<policy, body, stack, buf, origin, pc, pass, input, out1, parked>>

CallGetAttr ==
    /\ pc = "attr"
    /\ Len(calls) < MaxCalls
    /\ \E k \in AttrKeys :
          calls' = Append(calls, HelperCall("get", k, <<>>, GetAttr(nodes[1], k)))
    /\ UNCHANGED <<policy, nodes, body, stack, buf, origin, pc, pass, input, out1, parked>>

CallRemoveAttr ==
    /\ pc = "attr"
    /\ Len(calls) < MaxCalls
    /\ \E k \in AttrKeys :
          /\ nodes' = [nodes EXCEPT ![1] = RemoveAttr(@, k)]
          /\ calls' = Append(calls, HelperCall("remove", k, <<>>, <<>>))
    /\ UNCHANGED <<policy, body, stack, buf, origin, pc, pass, input, out1, parked>>

NextAttr ==
    \/ CallSetAttr
    \/ CallGetAttr
    \/ CallRemoveAttr

SpecAttr == InitAttr /\ [][NextAttr]_vars

(***************************************************************************)
(* The tree as the claims speak of it: parents, depth, subtrees, and what  *)
(* the policy says of a node before the walk reaches it.                   *)
(***************************************************************************)
ParentOf(n) ==
    LET ps == {q \in DOMAIN nodes : InList(nodes[q].Kids, n)}
    IN  IF ps = {} THEN 0 ELSE CHOOSE q \in ps : TRUE

RECURSIVE Ancestors(_)
Ancestors(n) ==
    IF ParentOf(n) = 0 THEN {} ELSE {ParentOf(n)} \cup Ancestors(ParentOf(n))

\* 1 for the first level below <body>, one more per level
DepthOf(n) == Cardinality(Ancestors(n)) + 1

Descendants(n) == {d \in DOMAIN nodes : n \in Ancestors(d)}

Subtree(n) == Descendants(n) \cup {n}

Elements == {n \in DOMAIN nodes : nodes[n].Type = "element"}

TextNodes == {n \in DOMAIN nodes : nodes[n].Type = "text"}

\* the tree the running pass was given, with the attributes as parsed
Original == IF pass = 1 THEN input.nodes ELSE ParseOutput(out1).nodes

\* tag := strings.ToLower(n.Data), taken before the transformers run
TagOf(n) == ToLower(Original[n].Data)

InAllowedTags(tag) == \E i \in DOMAIN policy.AllowedTags : ToLower(policy.AllowedTags[i]) = tag

\* the rule of the policy for an element at its depth in the tree
PolicyAllows(n) ==
    /\ InAllowedTags(TagOf(n))
    /\ (policy.MaxDepth <= 0 \/ DepthOf(n) <= policy.MaxDepth)

\* the attributes of n that the policy keeps
KeptAttrs(n) ==
    LET aa == policy.AllowedAttributes
        names == (IF TagOf(n) \in DOMAIN aa THEN Range(aa[TagOf(n)]) ELSE {})
                 \cup (IF "*" \in DOMAIN aa THEN Range(aa["*"]) ELSE {})
    IN  SelectSeq(Original[n].Attr,
                  LAMBDA a : /\ a.Key \in names
                             /\ a.Key \in URLAttrs =>
                                  schemeAllowed(a.Val, sliceToSet(policy.AllowedSchemes)))

\* what the transformers of the policy, in order from the i-th, make of node
RECURSIVE Pipeline(_, _)
Pipeline(node, i) ==
    IF i > Len(policy.Transformers) THEN node
    ELSE LET r == ApplyTransformer(policy.Transformers[i], node)
         IN  IF r = Nil THEN Nil ELSE Pipeline(r, i + 1)

\* an allowed element that some transformer answers with nil
Vetoed(n) ==
    /\ n \in Elements
    /\ PolicyAllows(n)
    /\ Pipeline([Original[n] EXCEPT !.Attr = KeptAttrs(n)], 1) = Nil

\* an element whose children the walk does not visit
Blocks(a) ==
    IF PolicyAllows(a) THEN Vetoed(a) \/ isVoidElement(TagOf(a))
    ELSE policy.StripDisallowed

\* the walk visits n: no ancestor keeps it from its children
Reached(n) == \A a \in Ancestors(n) : ~Blocks(a)

\* the nodes that have written to the buffer
Writers == Range(origin)

\* the symbols that node n wrote, in order
SymbolsOf(n) ==
    LET at == SelectSeq([i \in DOMAIN buf |-> i], LAMBDA i : origin[i] = n)
    IN  [k \in DOMAIN at |-> buf[at[k]]]

Finished == pc = "done"

(***************************************************************************)
(* What one call returns when it runs alone: walk as a recursive function  *)
(* of the tree as parsed.                                                  *)
(***************************************************************************)
RECURSIVE walkAlone(_, _, _)
RECURSIVE kidsAlone(_, _, _, _)
walkAlone(ns, n, depth) ==
    LET node == ns[n]
        tag == ToLower(node.Data)
        r == Pipeline([node EXCEPT !.Attr =
                          filterAttrs(@, tag, policy.AllowedAttributes,
                                      sliceToSet(policy.AllowedSchemes))], 1)
    IN  IF node.Type = "text"
        THEN (IF policy.Linkify THEN writeLinkedText(node.Text)
              ELSE EscapeString(node.Text))
        ELSE IF node.Type # "element" THEN <<>>
        ELSE IF tag \in sliceToSet(policy.AllowedTags) /\ ~tooDeep(depth)
        THEN (IF r = Nil THEN <<>>
              ELSE IF isVoidElement(tag) THEN OpenTag(tag, r.Attr) \o <<" ", "/", ">">>
              ELSE OpenTag(tag, r.Attr) \o <<">">>
                   \o kidsAlone(ns, r.Kids, 1, depth + 1)
                   \o <<"<", "/", tag, ">">>)
        ELSE IF policy.StripDisallowed THEN <<>>
        ELSE EscapeString(renderOpenTag(node))
             \o kidsAlone(ns, node.Kids, 1, depth + 1)
             \o (IF isVoidElement(tag) THEN <<>>
                 ELSE EscapeString(<<"<", "/", tag, ">">>))

kidsAlone(ns, kids, i, depth) ==
    IF i > Len(kids) THEN <<>>
    ELSE walkAlone(ns, kids[i], depth) \o kidsAlone(ns, kids, i + 1, depth)

SanitizeAlone(tree) == kidsAlone(tree.nodes, tree.body, 1, 1)

\* the contents of the text nodes of an arena from node i on; the nodes of
\* an arena are numbered in document order
RECURSIVE TextsFrom(_, _)
TextsFrom(ns, i) ==
    IF i > Len(ns) THEN <<>>
    ELSE (IF ns[i].Type = "text" THEN ns[i].Text ELSE <<>>) \o TextsFrom(ns, i + 1)

\* the entries of an attribute list whose key is not key, in their order
RECURSIVE OtherKeys(_, _)
OtherKeys(attrs, key) ==
    IF attrs = <<>> THEN <<>>
    ELSE (IF Head(attrs).Key = key THEN <<>> ELSE <<Head(attrs)>>)
         \o OtherKeys(Tail(attrs), key)

\* the places of the entries of an attribute list that have the key
PlacesOfKey(attrs, key) == {i \in DOMAIN attrs : attrs[i].Key = key}

(***************************************************************************)
(* Live markup in a returned string.                                       *)
(***************************************************************************)
\* the names in the live tags of out: after "<", or after "</"
LiveTagNames(out) ==
    {out[k + 1] : k \in {i \in 1..(Len(out) - 1) : out[i] = "<" /\ out[i + 1] # "/"}}
    \cup {out[k + 2] : k \in {i \in 1..(Len(out) - 2) : out[i] = "<" /\ out[i + 1] = "/"}}

\* the values of the live href, src and action attributes of out
LiveURLValues(out) ==
    {[j \in 1..(QuoteFrom(out, k + 4) - k - 4) |-> UnescapeChar(out[k + 3 + j])] :
        k \in {i \in 1..(Len(out) - 3) :
                  /\ out[i] = " " /\ out[i + 1] \in URLAttrs
                  /\ out[i + 2] = "=" /\ out[i + 3] = "\""}}

\* the scheme a browser reads in a URL: leading and trailing spaces and
\* control characters go, tabs and newlines go, then letters, digits, + - .
\* up to a colon, in lower case; "" when there is none
RECURSIVE SchemeEnd(_, _)
SchemeEnd(v, i) ==
    IF i > Len(v) THEN 0
    ELSE IF v[i] = ":" THEN (IF i = 1 THEN 0 ELSE i)
    ELSE IF v[i] \in Letters \/ (i > 1 /\ v[i] \in Digits \cup {"+", "-", "."})
         THEN SchemeEnd(v, i + 1)
    ELSE 0

BrowserScheme(v) ==
    LET w == SelectSeq(TrimSpace(v), LAMBDA c : c \notin {"\t", "\n", "\r"})
        e == SchemeEnd(w, 1)
    IN  IF e = 0 THEN "" ELSE Join(ToLowerSeq(SubSeq(w, 1, e - 1)))

(***************************************************************************)
(* Reading a returned string: the anchors that the linkifier wrote, and    *)
(* the nesting of the live tags.                                           *)
(***************************************************************************)
\* the index of the first symbol c at or after j
RECURSIVE SymbolFrom(_, _, _)
SymbolFrom(out, j, c) ==
    IF j > Len(out) \/ out[j] = c THEN j ELSE SymbolFrom(out, j + 1, c)

HasSymbols(out, i, syms) ==
    /\ i + Len(syms) - 1 <= Len(out)
    /\ SubSeq(out, i, i + Len(syms) - 1) = syms

NoLinks == [plain |-> <<>>, links |-> <<>>, ok |-> TRUE]

\* out from index i on, read as text with anchors <a href="H" rel="R">T</a>:
\* plain is out without the anchor tags, links the anchors in order, each
\* with the place of its text in plain, ok whether every live tag had that shape
RECURSIVE LinkScan(_, _, _)
LinkScan(out, i, acc) ==
    IF i > Len(out) THEN acc
    ELSE IF out[i] # "<" THEN LinkScan(out, i + 1, [acc EXCEPT !.plain = Append(@, out[i])])
    ELSE LET q == SymbolFrom(out, i + 6, "\"")
             r == SymbolFrom(out, q + 5, "\"")
             c == SymbolFrom(out, r + 2, "<")
             shape == /\ HasSymbols(out, i, <<"<", "a", " ", "href", "=", "\"">>)
                      /\ HasSymbols(out, q, <<"\"", " ", "rel", "=", "\"">>)
                      /\ HasSymbols(out, r, <<"\"", ">">>)
                      /\ HasSymbols(out, c, <<"<", "/", "a", ">">>)
         IN  IF ~shape THEN [acc EXCEPT !.ok = FALSE]
             ELSE LinkScan(out, c + 4,
                      [plain |-> acc.plain \o SubSeq(out, r + 2, c - 1),
                       links |-> Append(acc.links,
                                    [first |-> Len(acc.plain) + 1,
                                     last |-> Len(acc.plain) + (c - r - 2),
                                     href |-> SubSeq(out, i + 6, q - 1),
                                     rel |-> SubSeq(out, q + 5, r - 1),
                                     text |-> SubSeq(out, r + 2, c - 1)]),
                       ok |-> acc.ok])

\* out with the anchor tags of the linkifier taken away
Unwrap(out) == LinkScan(out, 1, NoLinks).plain

\* u is a URL as the linkifier understands one: http:// or https://, one or
\* more characters that are not white space, <, > or ", and a last character
\* that is, besides, none of . , ; : ! ? ) ]
IsURL(u) ==
    \E k \in {8, 9} :
        /\ Len(u) >= k + 1
        /\ SubSeq(u, 1, k - 1) \in {<<"h", "t", "t", "p", ":", "/", "/">>,
                                    <<"h", "t", "t", "p", "s", ":", "/", "/">>}
        /\ \A j \in k..Len(u) : BodyChar(u[j])
        /\ LastChar(u[Len(u)])

\* the tag names that the HTML standard calls void
VoidNames ==
    {"area", "base", "br", "col", "embed", "hr", "img", "input",
     "link", "meta", "param", "source", "track", "wbr"}

\* the live tags of out from index i on nest properly inside the open
\* elements: a closing tag closes the innermost open element, a void name has
\* a self-closing tag and no other, and nothing stays open at the end
RECURSIVE Nesting(_, _, _)
Nesting(out, i, open) ==
    IF i > Len(out) THEN open = <<>>
    ELSE IF out[i] # "<" THEN Nesting(out, i + 1, open)
    ELSE IF i + 1 <= Len(out) /\ out[i + 1] = "/"
         THEN /\ i + 3 <= Len(out)
              /\ open # <<>>
              /\ open[Len(open)] = out[i + 2]
              /\ out[i + 3] = ">"
              /\ Nesting(out, i + 4, SubSeq(open, 1, Len(open) - 1))
    ELSE LET g == SymbolFrom(out, i, ">")
         IN  /\ i + 2 <= g
             /\ g <= Len(out)
             /\ IF out[g - 1] = "/"
                THEN out[i + 1] \in VoidNames /\ Nesting(out, g + 1, open)
                ELSE /\ out[i + 1] \notin VoidNames
                     /\ Nesting(out, g + 1, Append(open, out[i + 1]))

\* the places of buf that node n wrote
PlacesOf(n) == {i \in DOMAIN buf : origin[i] = n}

\* the places of buf that the nodes below n wrote
PlacesBelow(n) == {i \in DOMAIN buf : origin[i] \in Descendants(n)}

Count(s, c) == Cardinality({i \in DOMAIN s : s[i] = c})

\* the calls made for node n, in order
CallsFor(n) == SelectSeq(calls, LAMBDA c : c.n = n)

\* an allowed element that the walk reaches and no transformer vetoes
Emitted(n) ==
    /\ n \in Elements
    /\ PolicyAllows(n)
    /\ Reached(n)
    /\ ~Vetoed(n)

\* an element that the walk reaches and finds not allowed
Refused(n) ==
    /\ n \in Elements
    /\ ~PolicyAllows(n)
    /\ Reached(n)

\* what the escape branch writes for element n: its tags, as text
EscapedTags(n) ==
    EscapeString(renderOpenTag(Original[n]))
    \o (IF TagOf(n) \in VoidNames THEN <<>>
        ELSE EscapeString(<<"<", "/", TagOf(n), ">">>))

(***************************************************************************)
(* C1. Allow-list soundness: every live tag in the output, whatever the    *)
(* policy, has a lower-cased name that is in AllowedTags.                  *)
(***************************************************************************)
C1_AllowListSoundness ==
    \A t \in LiveTagNames(buf) : InAllowedTags(ToLower(t))

(***************************************************************************)
(* C2. Scheme soundness: every live href, src or action value in the       *)
(* output has no scheme (a relative reference) or a scheme that is in      *)
(* AllowedSchemes.                                                         *)
(***************************************************************************)
C2_SchemeSoundness ==
    \A v \in LiveURLValues(buf) :
        BrowserScheme(v) \in {""} \cup {ToLower(policy.AllowedSchemes[i]) :
                                          i \in DOMAIN policy.AllowedSchemes}

(***************************************************************************)
(* C3. Under DefaultPolicy, Sanitize of                                    *)
(* <b>Hello</b> <script>alert('xss')</script> returns "<b>Hello</b> ":     *)
(* neither the name script nor the text of the script is in the output.    *)
(***************************************************************************)
C3_ScriptRemoved ==
    Finished /\ pass = 1 /\ input = TreeScript /\ policy = DefaultPolicy =>
        /\ buf = <<"<", "b", ">">> \o TextHello \o <<"<", "/", "b", ">", " ">>
        /\ "script" \notin Range(buf)

(***************************************************************************)
(* C4 as stated. Strip vs escape: for an element that is not allowed, with *)
(* StripDisallowed nothing is written for it or below it; without, its     *)
(* tags are written as escaped text only and the content of every text     *)
(* node below it is in the output.                                         *)
(***************************************************************************)
C4_StripOrEscape_Stated ==
    Finished =>
        \A n \in Elements : Refused(n) =>
            IF policy.StripDisallowed
            THEN Subtree(n) \cap Writers = {}
            ELSE /\ SymbolsOf(n) = EscapedTags(n)
                 /\ "<" \notin Range(SymbolsOf(n))
                 /\ \A d \in Descendants(n) \cap TextNodes :
                       Unwrap(SymbolsOf(d)) = EscapeString(nodes[d].Text)

(***************************************************************************)
(* C4. Strip vs escape: for an element that the walk reaches and finds not *)
(* allowed, with StripDisallowed nothing is written for it or below it;    *)
(* without, its tags are written as escaped text only and the content of   *)
(* every text node below it is in the output, unless the text node lies    *)
(* below an allowed element that a transformer vetoes or that is void.     *)
(***************************************************************************)
C4_StripOrEscape ==
    Finished =>
        \A n \in Elements : Refused(n) =>
            IF policy.StripDisallowed
            THEN Subtree(n) \cap Writers = {}
            ELSE /\ SymbolsOf(n) = EscapedTags(n)
                 /\ "<" \notin Range(SymbolsOf(n))
                 /\ \A d \in Descendants(n) \cap TextNodes :
                       Reached(d) =>
                           Unwrap(SymbolsOf(d)) = EscapeString(nodes[d].Text)

\* an escaped element: the text below it was written, but for the text
\* below an allowed element that was vetoed
C4_Witness ==
    /\ Finished
    /\ ~policy.StripDisallowed
    /\ \E n \in Elements :
          /\ Refused(n)
          /\ SymbolsOf(n) # <<>>
          /\ \E d \in Descendants(n) \cap TextNodes : Reached(d) /\ d \in Writers
          /\ \E e \in Descendants(n) : Vetoed(e)

(***************************************************************************)
(* C5. Attribute filter: once the filter has run on an allowed element,    *)
(* its attributes are, in their original order, exactly those whose key    *)
(* is, letter for letter, in AllowedAttributes[tag] or                     *)
(* AllowedAttributes["*"] and whose value, when the key is href, src or    *)
(* action, the scheme validator approves; these are the attributes of the  *)
(* tag written.                                                            *)
(***************************************************************************)
C5_AttributeFilter ==
    /\ \A n \in Elements :
          CallsFor(n) # <<>> => nodes[n].Attr = KeptAttrs(n)
    /\ Finished =>
          \A n \in Elements : PolicyAllows(n) =>
              /\ CallsFor(n) # <<>>
              /\ \E close \in {<<">", "<", "/", TagOf(n), ">">>, <<" ", "/", ">">>} :
                    buf = <<"<", TagOf(n)>> \o writeAttrs(KeptAttrs(n), TRUE) \o close

\* <a id="m" href=V onclick="x"> under DefaultPolicy, V read as javascript:
\* only after the character reference in it is decoded: id alone is kept
C5_Witness ==
    /\ Finished
    /\ policy = DefaultPolicy
    /\ input.nodes[1].Data = "a"
    /\ input.nodes[1].Attr[2].Key = "href"
    /\ Len(input.nodes[1].Attr[2].Val) >= 6
    /\ <<"&", "#", "1", "0", "6", ";">> = SubSeq(input.nodes[1].Attr[2].Val, 1, 6)
    /\ nodes[1].Attr = <<Attribute("id", <<"m">>)>>
    /\ buf = <<"<", "a", " ", "id", "=", "\"", "m", "\"", ">", "<", "/", "a", ">">>

(***************************************************************************)
(* C6. Depth enforcement: with MaxDepth = N > 0, whatever StripDisallowed  *)
(* is, nothing is written for an element deeper than N nor for any node    *)
(* below it, and its allowed ancestors at depth <= N are written.          *)
(***************************************************************************)
C6_DepthEnforcement ==
    Finished /\ policy.MaxDepth > 0 =>
        \A n \in Elements :
            Reached(n) /\ DepthOf(n) > policy.MaxDepth =>
                /\ Subtree(n) \cap Writers = {}
                /\ \A a \in Ancestors(n) : PolicyAllows(a) => a \in Writers

(***************************************************************************)
(* C7. Transformer pipeline: the calls made for an element are the filter  *)
(* and then the transformers in the order of the policy; only the last of  *)
(* them can have answered nil; an allowed element writes nothing before    *)
(* every transformer has answered, and what it writes is what the pipeline *)
(* made of the filtered node; after a nil answer nothing is ever written   *)
(* for the node or below it; and no step takes back what is in the buffer. *)
(***************************************************************************)
C7_PipelineState ==
    \A n \in Elements :
        LET cs == CallsFor(n)
        IN  /\ cs # <<>> => PolicyAllows(n) /\ cs[1].op = "filter"
            /\ Len(cs) <= 1 + Len(policy.Transformers)
            /\ \A i \in 2..Len(cs) :
                  /\ cs[i].op = "transform"
                  /\ cs[i].t = policy.Transformers[i - 1]
                  /\ ~cs[i - 1].nil
            /\ n \in Writers /\ PolicyAllows(n) =>
                  /\ Len(cs) = 1 + Len(policy.Transformers)
                  /\ ~cs[Len(cs)].nil
                  /\ nodes[n] = Pipeline([Original[n] EXCEPT !.Attr = KeptAttrs(n)], 1)
            /\ cs # <<>> /\ cs[Len(cs)].nil =>
                  /\ Vetoed(n)
                  /\ Subtree(n) \cap Writers = {}
            /\ Finished /\ Vetoed(n) /\ Reached(n) =>
                  cs # <<>> /\ cs[Len(cs)].nil

C7_PipelineStep ==
    pass' = pass =>
        /\ Len(buf') >= Len(buf)
        /\ SubSeq(buf', 1, Len(buf)) = buf
        /\ SubSeq(origin', 1, Len(origin)) = origin
        /\ SubSeq(calls', 1, Len(calls)) = calls

C8_Idempotence == Finished /\ pass = 2 => buf = out1

(***************************************************************************)
(* C9. Linkify: the output for a text node is its escaped text with        *)
(* anchors around the URLs: taking the anchor tags away gives the escaped  *)
(* text; every anchor stands around a URL, its href and its text are both  *)
(* the escaped URL and its rel is noopener noreferrer; every URL is taken  *)
(* as long as it can be, and no URL starts outside the anchors.            *)
(***************************************************************************)
C9_Linkify ==
    Finished /\ policy.Linkify =>
        LET text == nodes[body[1]].Text
            scan == LinkScan(buf, 1, NoLinks)
        IN  /\ scan.ok
            /\ scan.plain = EscapeString(text)
            /\ \A k \in DOMAIN scan.links :
                  LET l == scan.links[k]
                      url == SubSeq(text, l.first, l.last)
                  IN  /\ IsURL(url)
                      /\ l.href = EscapeString(url)
                      /\ l.text = EscapeString(url)
                      /\ l.rel = RelValue
                      /\ \A e \in (l.last + 1)..Len(text) :
                            ~IsURL(SubSeq(text, l.first, e))
            /\ \A i \in DOMAIN text : \A e \in i..Len(text) :
                  IsURL(SubSeq(text, i, e)) =>
                      \E k \in DOMAIN scan.links :
                          scan.links[k].first <= i /\ i <= scan.links[k].last

\* two URLs in one text, the first followed by punctuation that stays outside
C9_Witness ==
    /\ Finished
    /\ policy.Linkify
    /\ LET scan == LinkScan(buf, 1, NoLinks)
       IN  /\ Len(scan.links) = 2
           /\ nodes[body[1]].Text[scan.links[1].last + 1] = "."

C11_OwnResult ==
    /\ pc = "done" => buf = SanitizeAlone(input)
    /\ parked # NoCall /\ parked.pc = "done" =>
          parked.buf = SanitizeAlone(parked.input)

C11_PolicyKept == policy' = policy

C11_SharedPolicy == []C11_OwnResult /\ [][C11_PolicyKept]_vars

\* both calls have returned, on different inputs, after the scheduler
\* switched between them while each had written part of its output
C11_Witness ==
    /\ pc = "done"
    /\ parked # NoCall
    /\ parked.pc = "done"
    /\ parked.mixed
    /\ input # parked.input
    /\ buf # <<>>
    /\ parked.buf # <<>>

(***************************************************************************)
(* C12. StripTags returns the contents of the text nodes below <body>, as  *)
(* they are (not escaped), one after the other in document order, and      *)
(* nothing else: no tag name, no attribute, no comment.                    *)
(***************************************************************************)
C12_StripTags ==
    pc = "stripped" =>
        /\ buf = TextsFrom(input.nodes, 1)
        /\ Writers \subseteq {n \in DOMAIN input.nodes : input.nodes[n].Type = "text"}
        /\ \A n \in DOMAIN input.nodes :
              input.nodes[n].Type = "text" => SymbolsOf(n) = input.nodes[n].Text
        /\ input = TreeHelloWorld =>
              buf = <<"H", "e", "l", "l", "o", " ", "w", "o", "r", "l", "d">>
        /\ nodes = input.nodes

\* a text with & inside an element with attributes, beside a comment: the
\* text is returned as it is
C12_Witness ==
    /\ pc = "stripped"
    /\ buf = TextURL
    /\ Len(nodes) = 3
    /\ \E n \in Elements : nodes[n].Attr # <<>> /\ nodes[n].Kids # <<>>
    /\ \E n \in DOMAIN nodes : nodes[n].Type = "comment"

(***************************************************************************)
(* C13. Attribute helpers, after every call in a row of calls: SetAttr     *)
(* makes GetAttr return the value, by changing the first entry that has    *)
(* the key where it stands (no entry is added) or, when no entry has the   *)
(* key, by appending one; RemoveAttr leaves no entry with the key, so      *)
(* GetAttr returns ""; both leave the entries with other keys as they      *)
(* were, in their order; GetAttr changes nothing and returns the value of  *)
(* the first entry with the key, "" when there is none.                    *)
(***************************************************************************)
C13_AttrHelpers ==
    pc = "attr" /\ calls # <<>> =>
        LET c == calls[Len(calls)]
            before == c.before
            after == nodes[1].Attr
            had == PlacesOfKey(before, c.key)
            first == CHOOSE i \in had : \A j \in had : i <= j
        IN  /\ OtherKeys(after, c.key) = OtherKeys(before, c.key)
            /\ c.op = "set" =>
                  /\ GetAttr(nodes[1], c.key) = c.val
                  /\ IF had # {}
                     THEN /\ Len(after) = Len(before)
                          /\ PlacesOfKey(after, c.key) = had
                          /\ \A i \in DOMAIN before :
                                after[i] = IF i = first
                                           THEN Attribute(c.key, c.val)
                                           ELSE before[i]
                     ELSE after = Append(before, Attribute(c.key, c.val))
            /\ c.op = "remove" =>
                  /\ PlacesOfKey(after, c.key) = {}
                  /\ GetAttr(nodes[1], c.key) = <<>>
                  /\ Len(after) = Len(before) - Cardinality(had)
            /\ c.op = "get" =>
                  /\ after = before
                  /\ c.got = IF had = {} THEN <<>> ELSE before[first].Val

\* a key removed, then set again on a node where two entries have another
\* key, then that other key set: its first entry changes, the second stays
C13_Witness ==
    /\ pc = "attr"
    /\ Len(calls) = 3
    /\ calls[1].op = "remove"
    /\ calls[2].op = "set"
    /\ calls[2].key = calls[1].key
    /\ calls[3].op = "set"
    /\ calls[3].key # calls[1].key
    /\ Cardinality(PlacesOfKey(calls[3].before, calls[3].key)) = 2
    /\ \E i \in PlacesOfKey(nodes[1].Attr, calls[3].key) :
          nodes[1].Attr[i].Val # calls[3].val

(***************************************************************************)
(* C14. Allowed rule: for every MaxDepth, negative ones included, the walk *)
(* takes the allowed branch for an element at depth d exactly when its     *)
(* lower-cased tag is in AllowedTags and MaxDepth = 0 or d <= MaxDepth.    *)
(***************************************************************************)
C14_RuleAllows ==
    /\ InAllowedTags(ToLower(nodes[Top.n].Data))
    /\ (policy.MaxDepth = 0 \/ Top.depth <= policy.MaxDepth)

C14_AllowedRule ==
    [][/\ FilterElement => C14_RuleAllows
       /\ StripElement \/ EscapeOpenTag => ~C14_RuleAllows]_vars

(***************************************************************************)
(* C15. The node that the last transformer returned is what is written:    *)
(* its tag name in the open and closing tags and for the void decision,    *)
(* its attributes, and its children below it.                              *)
(***************************************************************************)
C15_ReturnedNode ==
    Finished =>
        \A n \in Elements : Emitted(n) =>
            LET r == nodes[n]
                name == ToLower(r.Data)
            IN  /\ SymbolsOf(n) =
                      <<"<", name>> \o writeAttrs(r.Attr, TRUE)
                      \o (IF name \in VoidNames THEN <<" ", "/", ">">>
                          ELSE <<">", "<", "/", name, ">">>)
                /\ name \notin VoidNames =>
                      \A k \in Range(r.Kids) : nodes[k].Type = "text" => k \in Writers

====
